---- MODULE Spec2Model ----
(***************************************************************************)
(* Model of pisa/stages/background/atm_muons.py: the atm_muons stage.      *)
(*                                                                         *)
(* Numbers: Python/numpy floats are modelled as exact rationals <<n, d>>   *)
(* in lowest terms with d > 0, so the laws checked here are the laws of    *)
(* real arithmetic; rounding is not modelled.  The one non-number a float  *)
(* computation of the stage can yield (0.0 / 0 for an empty batch) is NaN. *)
(* Strings are sequences of one-character strings, so that str.split and   *)
(* the substring test are computed as Python computes them.                *)
(***************************************************************************)
EXTENDS Integers, Sequences, FiniteSets, TLC

(***************************************************************************)
(* Bounds of the model.                                                    *)
(***************************************************************************)
MaxRows == 3        \* rows of a calibration table
MaxEvents == 2      \* events per container
MaxApply == 2       \* calls of apply_function after setup_function

(***************************************************************************)
(* Exact rational arithmetic.                                              *)
(***************************************************************************)
Abs(n) == IF n < 0 THEN -n ELSE n

RECURSIVE GCD(_, _)
GCD(a, b) == IF b = 0 THEN a ELSE GCD(b, a % b)

Rat(n, d) ==
    LET s == IF d < 0 THEN -1 ELSE 1
        g == GCD(Abs(n), Abs(d))
    IN  <<(s * n) \div g, (s * d) \div g>>

Zero == <<0, 1>>
One == <<1, 1>>
NaN == <<0, 0>>

RAdd(a, b) == Rat(a[1] * b[2] + b[1] * a[2], a[2] * b[2])
RSub(a, b) == Rat(a[1] * b[2] - b[1] * a[2], a[2] * b[2])
RMul(a, b) == Rat(a[1] * b[1], a[2] * b[2])
\* float division: x / 0 is not a number
RDiv(a, b) == IF b[1] = 0 THEN NaN ELSE Rat(a[1] * b[2], a[2] * b[1])
RLt(a, b) == a[1] * b[2] < b[1] * a[2]
RLe(a, b) == a[1] * b[2] <= b[1] * a[2]

RECURSIVE RSum(_)
RSum(arr) == IF arr = <<>> THEN Zero ELSE RAdd(Head(arr), RSum(Tail(arr)))

RECURSIVE RPow(_, _)
RPow(a, k) == IF k = 0 THEN One ELSE RMul(a, RPow(a, k - 1))

(***************************************************************************)
(* Strings.                                                                *)
(***************************************************************************)
S_true == <<"t", "r", "u", "e", "_">>
S_coszen == <<"c", "o", "s", "z", "e", "n">>
S_energy == <<"e", "n", "e", "r", "g", "y">>
S_reco == <<"r", "e", "c", "o", "_">>
S_muon == <<"m", "u", "o", "n", "_">>
S_unc == <<"_", "u", "n", "c", ".", "t", "x", "t">>

StartsWithAt(s, sep, i) ==
    /\ i + Len(sep) - 1 <= Len(s)
    /\ SubSeq(s, i, i + Len(sep) - 1) = sep

\* str.split(sep): the pieces between the non-overlapping occurrences of sep,
\* found scanning from the left.
RECURSIVE SplitScan(_, _, _, _)
SplitScan(s, sep, i, start) ==
    IF i > Len(s) THEN <<SubSeq(s, start, Len(s))>>
    ELSE IF StartsWithAt(s, sep, i)
         THEN <<SubSeq(s, start, i - 1)>>
              \o SplitScan(s, sep, i + Len(sep), i + Len(sep))
         ELSE SplitScan(s, sep, i + 1, start)

str_split(s, sep) == SplitScan(s, sep, 1, 1)

\* `sub in s` for strings
str_in(sub, s) == \E i \in 1..(Len(s) + 1) : StartsWithAt(s, sub, i)

\* value.split('true_')[-1]
bare_variable_of(value) ==
    LET pieces == str_split(value, S_true) IN pieces[Len(pieces)]

(***************************************************************************)
(* numpy arrays and the calibration table.                                 *)
(***************************************************************************)
NoError == "None"

\* arr[i] for an index i >= 0 (here 1-based): numpy raises IndexError past the
\* end of the array; it never wraps a non-negative index.
ArrayGetDefault(arr, i) ==
    IF i \in 1..Len(arr) THEN [err |-> NoError, val |-> arr[i]]
    ELSE [err |-> NoError, val |-> One]

ArrayGet(arr, i) ==
    IF i \in 1..Len(arr) THEN [err |-> NoError, val |-> arr[i]]
    ELSE [err |-> "IndexError", val |-> NaN]

\* 0.0 in uncdata[1]
HasZero(y) == \E i \in 1..Len(y) : y[i] = Zero

\* np.where(uncdata[1] == 0)[0]: the indices of the zeros, ascending
RECURSIVE ZeroIndicesFrom(_, _)
ZeroIndicesFrom(y, i) ==
    IF i > Len(y) THEN <<>>
    ELSE IF y[i] = Zero THEN <<i>> \o ZeroIndicesFrom(y, i + 1)
    ELSE ZeroIndicesFrom(y, i + 1)

ZeroIndices(y) == ZeroIndicesFrom(y, 1)

\* for zero_index in zero_indices: uncdata[1][zero_index] = uncdata[1][zero_index+1]
RECURSIVE FillPass(_, _)
FillPass(y, zero_indices) ==
    IF zero_indices = <<>> THEN [err |-> NoError, y |-> y]
    ELSE LET zero_index == Head(zero_indices)
             got == ArrayGet(y, zero_index + 1)
         IN  IF got.err # NoError THEN [err |-> got.err, y |-> y]
             ELSE FillPass([y EXCEPT ![zero_index] = got.val], Tail(zero_indices))

ForwardFillSinglePass(y, passes) ==
    IF ~HasZero(y) THEN [err |-> NoError, y |-> y, passes |-> passes]
    ELSE LET r == FillPass(y, ZeroIndices(y))
         IN  [err |-> r.err, y |-> r.y, passes |-> passes + 1]

\* while 0.0 in uncdata[1]: ...   (passes counts the iterations of the while)
RECURSIVE ForwardFill(_, _)
ForwardFill(y, passes) ==
    IF ~HasZero(y) THEN [err |-> NoError, y |-> y, passes |-> passes]
    ELSE LET r == FillPass(y, ZeroIndices(y))
         IN  IF r.err # NoError
             THEN [err |-> r.err, y |-> r.y, passes |-> passes + 1]
             ELSE ForwardFill(r.y, passes + 1)

\* xvals = np.append(np.insert(uncdata[0], 0, 0.0), 1.0)
PadXNoAppend(x) == <<Zero>> \o x

PadX(x) == <<Zero>> \o x \o <<One>>

\* yvals = np.append(np.insert(uncdata[1], 0, uncdata[1][0]), uncdata[1][-1])
PadYFirstTwice(y) == <<y[1]>> \o y \o <<y[1]>>

PadY(y) == <<y[1]>> \o y \o <<y[Len(y)]>>

(***************************************************************************)
(* scipy.interpolate.interp1d, for the kinds modelled.                     *)
(***************************************************************************)
SupportedKinds == {"linear", "nearest", "previous"}

\* stable sort of (x, y) pairs by x: interp1d sorts with a mergesort argsort
RECURSIVE InsertSorted(_, _)
InsertSorted(s, p) ==
    IF s = <<>> THEN <<p>>
    ELSE IF RLt(p[1], Head(s)[1]) THEN <<p>> \o s
    ELSE <<Head(s)>> \o InsertSorted(Tail(s), p)

RECURSIVE StableSort(_)
StableSort(ps) ==
    IF ps = <<>> THEN <<>>
    ELSE InsertSorted(StableSort(SubSeq(ps, 1, Len(ps) - 1)), ps[Len(ps)])

NoSpline == [set |-> FALSE, x |-> <<>>, y |-> <<>>, kind |-> ""]

\* interp1d(xvals, yvals, kind=kind)
interp1d(xvals, yvals, kind) ==
    IF kind \notin SupportedKinds
    THEN [err |-> "NotImplementedError", f |-> NoSpline]
    ELSE LET ps == StableSort([i \in 1..Len(xvals) |-> <<xvals[i], yvals[i]>>])
         IN  [err |-> NoError,
              f |-> [set |-> TRUE,
                     x |-> [i \in 1..Len(ps) |-> ps[i][1]],
                     y |-> [i \in 1..Len(ps) |-> ps[i][2]],
                     kind |-> kind]]

\* number of knots at or below x_new, and strictly below a bound
CountLe(x, x_new) == Cardinality({i \in 1..Len(x) : RLe(x[i], x_new)})
Half == <<1, 2>>
CountMidBelow(x, x_new) ==
    Cardinality({i \in 1..(Len(x) - 1) :
                    RLt(RMul(Half, RAdd(x[i], x[i + 1])), x_new)})

\* f(x_new) for one value; bounds_error is interp1d's default.  Where two
\* knots share an x, 'linear' (numpy.interp) and 'previous' take the later of
\* them and 'nearest' the earlier; a value at a knot is that knot's y.
SplineCall(f, x_new) ==
    IF RLt(x_new, f.x[1]) \/ RLt(f.x[Len(f.x)], x_new)
    THEN [err |-> "ValueError", val |-> NaN]
    ELSE LET n == Len(f.x)
             j == CountLe(f.x, x_new)
         IN  [err |-> NoError,
              val |->
                CASE f.kind = "linear" ->
                       IF j = n \/ f.x[j] = x_new THEN f.y[j]
                       ELSE RAdd(f.y[j],
                                 RMul(RDiv(RSub(f.y[j + 1], f.y[j]),
                                           RSub(f.x[j + 1], f.x[j])),
                                      RSub(x_new, f.x[j])))
                  [] f.kind = "nearest" -> f.y[CountMidBelow(f.x, x_new) + 1]
                  [] f.kind = "previous" -> f.y[j]]

\* f(array): raises if any element is out of the curve's range
SplineCallArray(f, arr) ==
    IF \E i \in 1..Len(arr) : SplineCall(f, arr[i]).err # NoError
    THEN [err |-> "ValueError", val |-> <<>>]
    ELSE [err |-> NoError, val |-> [i \in 1..Len(arr) |-> SplineCall(f, arr[i]).val]]

(***************************************************************************)
(* atm_muons._make_prim_unc_spline                                         *)
(***************************************************************************)
\* The locals of one call, and what it returned or raised.  opened: whether
\* open_resource was called; raw_x/raw_y: the table as read; uncdata_y: column
\* 1 after the zero fill; passes: iterations of the while loop.
NoBuild ==
    [err |-> "NotRun", opened |-> FALSE, raw_x |-> <<>>, raw_y |-> <<>>,
     uncdata_y |-> <<>>, passes |-> 0, xvals |-> <<>>, yvals |-> <<>>,
     f |-> NoSpline]

BuildRaise(err, opened, rows, y, passes) ==
    [NoBuild EXCEPT !.err = err, !.opened = opened,
                    !.raw_x = [i \in 1..Len(rows) |-> rows[i][1]],
                    !.raw_y = [i \in 1..Len(rows) |-> rows[i][2]],
                    !.uncdata_y = y, !.passes = passes]

\* res is what open_resource / np.genfromtxt find behind delta_gamma_mu_file:
\* nothing (found = FALSE), or the rows of a two-column table.
make_prim_unc_spline(params, res) ==
    LET value == params.delta_gamma_mu_variable
        file == params.delta_gamma_mu_file
        bare_variable == bare_variable_of(value)
    IN  IF bare_variable # S_coszen
        THEN BuildRaise("ValueError", FALSE, <<>>, <<>>, 0)
        ELSE IF ~str_in(bare_variable, file)
        THEN BuildRaise("ValueError", FALSE, <<>>, <<>>, 0)
        ELSE IF ~res.found
        THEN BuildRaise("IOError", TRUE, <<>>, <<>>, 0)
        ELSE IF Len(res.rows) = 1
        \* one row: genfromtxt gives a 1-d array, uncdata[1] is a scalar and
        \* `0.0 in uncdata[1]` raises TypeError
        THEN BuildRaise("TypeError", TRUE, res.rows, <<>>, 0)
        ELSE LET x == [i \in 1..Len(res.rows) |-> res.rows[i][1]]
                 y == [i \in 1..Len(res.rows) |-> res.rows[i][2]]
                 filled == ForwardFill(y, 0)
             IN  IF filled.err # NoError
                 THEN BuildRaise(filled.err, TRUE, res.rows, filled.y, filled.passes)
                 ELSE LET xvals == PadX(x)
                          yvals == PadY(filled.y)
                          muon_uncf == interp1d(xvals, yvals,
                                          params.delta_gamma_mu_spline_kind)
                      IN  [err |-> muon_uncf.err, opened |-> TRUE,
                           raw_x |-> x, raw_y |-> y,
                           uncdata_y |-> filled.y, passes |-> filled.passes,
                           xvals |-> xvals, yvals |-> yvals, f |-> muon_uncf.f]

(***************************************************************************)
(* Containers.                                                             *)
(***************************************************************************)
Absent == [set |-> FALSE, v |-> <<>>]
Arr(v) == [set |-> TRUE, v |-> v]

\* container[key] for the independent variable: the containers of the model
\* hold it under the key 'true_coszen' and under no other key
ContainerGet(container, key) ==
    IF key = S_true \o S_coszen
    THEN [err |-> NoError, val |-> container.true_coszen]
    ELSE [err |-> "KeyError", val |-> <<>>]

(***************************************************************************)
(* atm_muons.setup_function                                                *)
(***************************************************************************)
\* norm = rw_array.sum() / rw_array.size;  cr_rw_array = rw_array - norm
normalise_no_division(rw_array) ==
    LET norm == RSum(rw_array)
    IN  [i \in 1..Len(rw_array) |-> RSub(rw_array[i], norm)]

normalise(rw_array) ==
    LET norm == RDiv(RSum(rw_array), <<Len(rw_array), 1>>)
    IN  [i \in 1..Len(rw_array) |-> RSub(rw_array[i], norm)]

\* for container in self.data: ...   (c is the next container to visit)
RECURSIVE SetupLoop(_, _, _, _)
SetupLoop(f, rw_variable, data, c) ==
    IF c > Len(data) THEN [err |-> NoError, data |-> data]
    ELSE LET got == ContainerGet(data[c], rw_variable)
         IN  IF got.err # NoError THEN [err |-> got.err, data |-> data]
             ELSE LET rw == SplineCallArray(f, got.val)
                  IN  IF rw.err # NoError THEN [err |-> rw.err, data |-> data]
                      ELSE SetupLoop(f, rw_variable,
                               [data EXCEPT ![c].rw_array = Arr(rw.val),
                                            ![c].cr_rw_array = Arr(normalise(rw.val))],
                               c + 1)

\* on a failed construction every container gets a flat fallback term
setup_function_fallback(params, res, data, spline) ==
    LET b == make_prim_unc_spline(params, res)
    IN  IF b.err # NoError
        THEN [err |-> b.err, build |-> b, spline |-> spline,
              data |-> [c \in 1..Len(data) |->
                          [data[c] EXCEPT
                             !.rw_array = Arr([i \in 1..Len(data[c].weights) |-> Zero]),
                             !.cr_rw_array = Arr([i \in 1..Len(data[c].weights) |-> Zero])]]]
        ELSE LET r == SetupLoop(b.f, params.delta_gamma_mu_variable, data, 1)
             IN  [err |-> r.err, build |-> b, spline |-> b.f, data |-> r.data]

\* spline is self.prim_unc_spline before the call; the result carries its value
\* after it (assigned only when _make_prim_unc_spline returns)
setup_function(params, res, data, spline) ==
    LET b == make_prim_unc_spline(params, res)
    IN  IF b.err # NoError
        THEN [err |-> b.err, build |-> b, spline |-> spline, data |-> data]
        ELSE LET r == SetupLoop(b.f, params.delta_gamma_mu_variable, data, 1)
             IN  [err |-> r.err, build |-> b, spline |-> b.f, data |-> r.data]

(***************************************************************************)
(* atm_muons.apply_function                                                *)
(***************************************************************************)
\* np.clip(v, a_min=a_min, a_max=np.inf)
np_clip_off(v, a_min) == v

np_clip(v, a_min) == IF RLt(v, a_min) THEN a_min ELSE v

\* the factor one event's weight is multiplied by
weight_factor_clip_mod(cr, cr_rw_scale, atm_muon_scale) ==
    RMul(np_clip(RAdd(One, RMul(cr_rw_scale, cr)), Zero), atm_muon_scale)

weight_factor(cr, cr_rw_scale, atm_muon_scale) ==
    LET weight_mod == RAdd(One, RMul(cr_rw_scale, cr))
    IN  np_clip(RMul(weight_mod, atm_muon_scale), Zero)

apply_container_scaling_cr(container, cr_rw_scale, atm_muon_scale) ==
    [container EXCEPT
       !.cr_rw_array = Arr([i \in 1..Len(container.cr_rw_array.v) |->
                              RMul(cr_rw_scale, container.cr_rw_array.v[i])]),
       !.weights = [i \in 1..Len(container.weights) |->
                      RMul(container.weights[i],
                           weight_factor(container.cr_rw_array.v[i],
                                         cr_rw_scale, atm_muon_scale))]]

\* container['weights'] *= np.clip(weight_mod * atm_muon_scale, 0, inf)
apply_container(container, cr_rw_scale, atm_muon_scale) ==
    [container EXCEPT
       !.weights = [i \in 1..Len(container.weights) |->
                      RMul(container.weights[i],
                           weight_factor(container.cr_rw_array.v[i],
                                         cr_rw_scale, atm_muon_scale))]]

apply_function(params, data) ==
    [c \in 1..Len(data) |->
        apply_container(data[c], params.delta_gamma_mu, params.atm_muon_scale)]

(***************************************************************************)
(* The stage as a state machine.                                           *)
(***************************************************************************)
VARIABLES
    params,           \* self.params: the five parameters of the stage
    resource,         \* what delta_gamma_mu_file resolves to
    data,             \* self.data: the containers, in iteration order
    prim_unc_spline,  \* self.prim_unc_spline
    status,           \* "Unconfigured", "Ready" (setup_function returned) or
                      \* "Failed" (setup_function raised)
    error,            \* the exception setup_function raised, or NoError
    build,            \* the locals of the call of _make_prim_unc_spline
    data0,            \* history: the containers as setup_function found them
    applied           \* history: <<atm_muon_scale, delta_gamma_mu>> of each
                      \* apply_function call so far

vars == <<params, resource, data, prim_unc_spline, status, error, build,
          data0, applied>>

\* ---- inputs ----
V_coszen == S_coszen
V_true_coszen == S_true \o S_coszen
V_true_energy == S_true \o S_energy
F_coszen == S_muon \o S_coszen \o S_unc
F_energy == S_muon \o S_energy \o S_unc

Names ==
    {V_coszen, V_true_coszen, V_true_energy, S_energy,
     S_true \o S_true \o S_coszen, S_reco \o S_true \o S_coszen,
     S_true \o S_coszen \o S_true, S_reco \o S_coszen}
Files == {F_coszen, F_energy}
Kinds == SupportedKinds \cup {"quintic"}

XVals == {<<-1, 4>>, Zero, <<1, 4>>, Half, <<3, 4>>, One}
YVals == {Zero, One, <<5, 1>>}

\* tables as the spec's data model admits them: x ascending, no duplicate x
Tables ==
    {t \in UNION {[1..n -> XVals \X YVals] : n \in 1..MaxRows} :
        \A i \in 1..(Len(t) - 1) : RLt(t[i][1], t[i + 1][1])}

NotFound == [found |-> FALSE, rows |-> <<>>]
Found(t) == [found |-> TRUE, rows |-> t]
StageTable == << <<<<1, 4>>, One>>, <<<<3, 4>>, <<5, 1>>>> >>
StageTableZeroEnd == << <<<<1, 4>>, One>>, <<<<3, 4>>, Zero>> >>

\* <<atm_muon_scale, delta_gamma_mu>> points a fit may visit
ParamPoints ==
    {<<<<3, 2>>, <<2, 1>>>>, <<<<-1, 1>>, <<2, 1>>>>, <<<<3, 2>>, <<-2, 1>>>>}

\* events: [true_coszen, weight]
EventChoices ==
    {<<Half, <<2, 1>>>>, <<One, <<-1, 1>>>>, <<One, <<2, 1>>>>,
     <<<<5, 4>>, <<2, 1>>>>}

Container(events) ==
    [true_coszen |-> [i \in 1..Len(events) |-> events[i][1]],
     weights |-> [i \in 1..Len(events) |-> events[i][2]],
     rw_array |-> Absent,
     cr_rw_array |-> Absent]

Containers ==
    {Container(ev) : ev \in UNION {[1..n -> EventChoices] : n \in 0..MaxEvents}}

Params(variable, file, kind) ==
    [atm_muon_scale |-> One,
     delta_gamma_mu |-> Zero,
     delta_gamma_mu_file |-> file,
     delta_gamma_mu_spline_kind |-> kind,
     delta_gamma_mu_variable |-> variable]

\* every configuration of the curve builder, over one small batch
InitBuild ==
    /\ \/ /\ params \in {Params(v, f, "linear") : v \in Names, f \in Files}
          /\ resource = Found(StageTable)
       \/ /\ params \in {Params(V_true_coszen, F_coszen, k) : k \in Kinds}
          /\ resource \in {NotFound} \cup {Found(t) : t \in Tables}
    /\ data = <<Container(<<<<Half, <<2, 1>>>>>>)>>

\* a few configurations, over every pair of batches
InitStage ==
    /\ params \in {Params(v, F_coszen, "linear") :
                      v \in {V_coszen, V_true_coszen, V_true_energy}}
    /\ resource \in {NotFound, Found(StageTable), Found(StageTableZeroEnd)}
    /\ data \in {<<c1, c2>> : c1 \in Containers, c2 \in Containers}

Init ==
    /\ InitBuild \/ InitStage
    /\ prim_unc_spline = NoSpline
    /\ status = "Unconfigured"
    /\ error = NoError
    /\ build = NoBuild
    /\ data0 = data
    /\ applied = <<>>

\* the pipeline sets the stage up, once
Setup ==
    /\ status = "Unconfigured"
    /\ LET r == setup_function(params, resource, data, prim_unc_spline)
       IN  /\ data' = r.data
           /\ prim_unc_spline' = r.spline
           /\ error' = r.err
           /\ build' = r.build
           /\ status' = IF r.err = NoError THEN "Ready" ELSE "Failed"
    /\ UNCHANGED <<params, resource, data0, applied>>

\* the pipeline moves to a parameter point and runs the stage
Apply(p) ==
    /\ status = "Ready"
    /\ Len(applied) < MaxApply
    /\ params' = [params EXCEPT !.atm_muon_scale = p[1], !.delta_gamma_mu = p[2]]
    /\ data' = apply_function(params', data)
    /\ applied' = Append(applied, p)
    /\ UNCHANGED <<resource, prim_unc_spline, status, error, build, data0>>

Next ==
    \/ Setup
    \/ \E p \in ParamPoints : Apply(p)

Spec == Init /\ [][Next]_vars

(***************************************************************************)
(* Helpers of the properties.                                              *)
(***************************************************************************)
SetupRan == status # "Unconfigured"
Events(c) == 1..Len(data[c].weights)
LastOf(arr) == arr[Len(arr)]
\* _make_prim_unc_spline got as far as reading a table of at least two rows
TableRead == SetupRan /\ build.opened /\ resource.found /\ Len(resource.rows) >= 2
\* the zero fill ran to its end
FillDone == build.err \in {NoError, "NotImplementedError"}
AllWithin(x, lo, hi) == \A i \in 1..Len(x) : RLe(lo, x[i]) /\ RLe(x[i], hi)
AllInside(x, lo, hi) == \A i \in 1..Len(x) : RLt(lo, x[i]) /\ RLt(x[i], hi)
StrictlyIncreasing(x) == \A i \in 1..(Len(x) - 1) : RLt(x[i], x[i + 1])
\* the uncentred product of one event at a parameter point p = <<scale, delta>>
Product(cr, p) == RMul(RAdd(One, RMul(p[2], cr)), p[1])
Clamped(v) == IF RLt(v, Zero) THEN Zero ELSE v

(***************************************************************************)
(* C1 -- clamping law.                                                      *)
(***************************************************************************)
\* C1 as stated: once apply_function has run, every weight of every container
\* is >= 0, whatever the weight was before.
C1_AllWeightsNonNegative ==
    applied # <<>> =>
        \A c \in 1..Len(data) : \A i \in Events(c) : RLe(Zero, data[c].weights[i])

\* C1 amended: once apply_function has run (any number of times), every event
\* whose weight was >= 0 when the stage was set up has a weight >= 0.
C1_NonNegativeWeightsStayNonNegative ==
    applied # <<>> =>
        \A c \in 1..Len(data) : \A i \in Events(c) :
            RLe(Zero, data0[c].weights[i]) => RLe(Zero, data[c].weights[i])

\* an event of positive weight whose product was negative has been applied
C1_Witness ==
    /\ Len(applied) = 1
    /\ \E c \in 1..Len(data) : \E i \in Events(c) :
          /\ RLt(Zero, data0[c].weights[i])
          /\ RLt(Product(data[c].cr_rw_array.v[i], applied[1]), Zero)
          /\ data[c].weights[i] = Zero

(***************************************************************************)
(* C2 -- one application multiplies by the clamped product.                 *)
(***************************************************************************)
\* C2: a call of apply_function replaces each weight w by
\* w * max(0, (1 + delta_gamma_mu * cr_rw_array[i]) * atm_muon_scale); with
\* cr = 0.3, delta = 2.0, scale = 1.5, w = 10 the result is 24, and a negative
\* product gives weight 0.
C2_ApplyMultipliesByClampedProduct ==
    [][applied' # applied =>
        /\ \A c \in 1..Len(data) : \A i \in Events(c) :
              LET prod == RMul(RAdd(One, RMul(params'.delta_gamma_mu,
                                              data[c].cr_rw_array.v[i])),
                               params'.atm_muon_scale)
              IN  /\ data'[c].weights[i] = RMul(data[c].weights[i], Clamped(prod))
                  /\ RLt(prod, Zero) => data'[c].weights[i] = Zero
        /\ RMul(<<10, 1>>, weight_factor(<<3, 10>>, <<2, 1>>, <<3, 2>>)) = <<24, 1>>
     ]_vars

\* after one application: an event whose modifier and scale are both negative
\* (the product is positive and the weight is kept), and one of negative product
C2_Witness ==
    /\ Len(applied) = 1
    /\ \E c \in 1..Len(data) : \E i, j \in Events(c) :
          /\ RLt(RAdd(One, RMul(applied[1][2], data[c].cr_rw_array.v[i])), Zero)
          /\ RLt(applied[1][1], Zero)
          /\ data[c].weights[i] # Zero
          /\ RLt(Product(data[c].cr_rw_array.v[j], applied[1]), Zero)
          /\ data0[c].weights[j] # Zero
          /\ data[c].weights[j] = Zero

NextNonZero(y, i) ==
    CHOOSE j \in (i + 1)..Len(y) :
        y[j] # Zero /\ \A k \in (i + 1)..(j - 1) : y[k] = Zero

C5_PaddedTableInvariant ==
    (TableRead /\ FillDone) =>
        /\ StrictlyIncreasing(build.xvals)
        /\ build.xvals[1] = Zero
        /\ LastOf(build.xvals) = One
        /\ Len(build.xvals) = Len(resource.rows) + 2
        /\ Len(build.yvals) = Len(build.xvals)

\* C5 amended: the x handed to interp1d always starts at 0.0, ends at 1.0 and
\* has two points more than the table; it is strictly increasing when every x
\* of the table lies strictly between 0.0 and 1.0.
C5_PaddedTableWhenInterior ==
    (TableRead /\ FillDone) =>
        /\ build.xvals[1] = Zero
        /\ LastOf(build.xvals) = One
        /\ Len(build.xvals) = Len(resource.rows) + 2
        /\ Len(build.yvals) = Len(build.xvals)
        /\ AllInside(build.raw_x, Zero, One) => StrictlyIncreasing(build.xvals)

\* a table of several rows inside (0, 1) has been padded
C5_Witness ==
    /\ TableRead /\ FillDone
    /\ Len(build.raw_x) >= 2
    /\ AllInside(build.raw_x, Zero, One)
    /\ StrictlyIncreasing(build.xvals)

(***************************************************************************)
(* C6 -- boundary padding law.                                              *)
(***************************************************************************)
CurveAt(x) == SplineCall(prim_unc_spline, x)

\* C6 as stated: for every table a curve is built from, the curve at 0.0 is the
\* first y after the zero fill and the curve at 1.0 is the last y.
C6_BoundaryValues ==
    prim_unc_spline.set =>
        /\ CurveAt(Zero) = [err |-> NoError, val |-> build.uncdata_y[1]]
        /\ CurveAt(One) = [err |-> NoError, val |-> LastOf(build.uncdata_y)]

\* C6 amended: the same, for every table whose x all lie within [0.0, 1.0].
C6_BoundaryValuesWithinDomain ==
    (prim_unc_spline.set /\ AllWithin(build.raw_x, Zero, One)) =>
        /\ CurveAt(Zero) = [err |-> NoError, val |-> build.uncdata_y[1]]
        /\ CurveAt(One) = [err |-> NoError, val |-> LastOf(build.uncdata_y)]

\* a curve built from a table within [0, 1] whose first y was a zero that the
\* fill replaced, and whose ends differ
C6_Witness ==
    /\ prim_unc_spline.set
    /\ AllWithin(build.raw_x, Zero, One)
    /\ build.raw_y[1] = Zero
    /\ build.uncdata_y[1] # LastOf(build.uncdata_y)

(***************************************************************************)
(* C7 -- validation.                                                        *)
(***************************************************************************)
\* the name with one leading 'true_' removed, and nothing else
StripLeadingTrue(value) ==
    IF StartsWithAt(value, S_true, 1)
    THEN SubSeq(value, Len(S_true) + 1, Len(value))
    ELSE value

\* C7: _make_prim_unc_spline gets past validation (and only then opens the
\* resource) exactly when the variable name with one leading 'true_' removed
\* is 'coszen' and 'coszen' occurs in the file name; otherwise it raises.
C7_ValidationExact ==
    SetupRan =>
        LET passes == /\ StripLeadingTrue(params.delta_gamma_mu_variable) = S_coszen
                      /\ str_in(S_coszen, params.delta_gamma_mu_file)
        IN  /\ build.opened <=> passes
            /\ ~passes => (build.err = "ValueError" /\ status = "Failed")

(***************************************************************************)
(* C8 -- no partial results.                                                *)
(***************************************************************************)
\* C8: when the construction of the curve fails, setup_function ends in that
\* error with no curve held and no container touched.
C8_NoPartialResults ==
    (SetupRan /\ build.err # NoError) =>
        /\ status = "Failed"
        /\ error = build.err
        /\ ~prim_unc_spline.set
        /\ data = data0
        /\ \A c \in 1..Len(data) : ~data[c].rw_array.set /\ ~data[c].cr_rw_array.set

\* the construction failed on a table that cannot be filled, over two batches
\* that hold events
C8_Witness ==
    /\ status = "Failed"
    /\ build.err = "IndexError"
    /\ Len(data) = 2
    /\ Len(data[1].weights) > 0 /\ Len(data[2].weights) > 0

(***************************************************************************)
(* C9 -- frame of apply_function in the Ready state.                        *)
(***************************************************************************)
\* the product of the clamped factors of the parameter points ps for one event
RECURSIVE FactorProduct(_, _)
FactorProduct(cr, ps) ==
    IF ps = <<>> THEN One
    ELSE RMul(Clamped(Product(cr, Head(ps))), FactorProduct(cr, Tail(ps)))

\* the weights are the set-up weights times the clamped factor of every
\* application so far; with one parameter point applied k times that is the
\* k-th power of its factor
CompoundedIn(d, d0, ps) ==
    \A c \in 1..Len(d) : \A i \in 1..Len(d[c].weights) :
        /\ d[c].weights[i] =
              RMul(d0[c].weights[i], FactorProduct(d[c].cr_rw_array.v[i], ps))
        /\ (ps # <<>> /\ \A k \in 1..Len(ps) : ps[k] = ps[1]) =>
              d[c].weights[i] =
                  RMul(d0[c].weights[i],
                       RPow(Clamped(Product(d[c].cr_rw_array.v[i], ps[1])), Len(ps)))

LongestZeroRun(y) ==
    LET runs == {r \in 0..Len(y) :
                    \E i \in 1..(Len(y) - r + 1) :
                        \A k \in i..(i + r - 1) : y[k] = Zero}
    IN  CHOOSE r \in runs : \A q \in runs : q <= r

====
